---------------------------- MODULE Spec2Model ----------------------------
(***************************************************************************)
(* Model of the book-inventory data layer of src/library.py: the books    *)
(* table kept by LibraryDB (sqlite), its CRUD methods, the two lending     *)
(* transitions issue_book / return_book, search, the CSV import and the     *)
(* CSV export, and the route save_book.                                    *)
(*                                                                         *)
(* Every LibraryDB method opens its own connection and commits once, so a  *)
(* single SQL statement is the unit of atomicity.  issue_book, return_book *)
(* and import_csv_fileobj are sequences of such statements.                *)
(*                                                                         *)
(*   Spec        one caller; every LibraryDB method runs to completion.    *)
(*   SpecImport  one caller; imports of every file of the bound.           *)
(*   SpecExport  one caller; exports of the stores adds and deletes make.  *)
(*   SpecConc    two request threads; their statements interleave.         *)
(*   SpecSave    two request threads; lending and save_book interleave.    *)
(***************************************************************************)
EXTENDS Integers, Sequences, FiniteSets, TLC

VARIABLES db, last, cl, handed

vars == <<db, last, cl, handed>>

(***************************************************************************)
(* Bounds of the model.                                                    *)
(***************************************************************************)
\* rows ever inserted (caps the AUTOINCREMENT counter)
MaxAdds == 2
\* data rows of one imported CSV file
MaxRows == 2

(***************************************************************************)
(* Python values.  A str is a sequence of one-character strings.           *)
(***************************************************************************)
PyNone == [t |-> "none"]
PyInt(n) == [t |-> "int", v |-> n]
PyStr(s) == [t |-> "str", v |-> s]
Raise(exc, msg) == [t |-> "raise", exc |-> exc, msg |-> msg]

\* bool(x) of None, an int or a str
Truthy(x) ==
    CASE x.t = "none" -> FALSE
      [] x.t = "int"  -> x.v # 0
      [] x.t = "str"  -> x.v # <<>>

\* x or y
PyOr(x, y) == IF Truthy(x) THEN x ELSE y

IsSpace(c) == c \in {" ", "\t", "\n", "\r"}

RECURSIVE LStrip(_)
LStrip(s) ==
    IF s # <<>> /\ IsSpace(Head(s)) THEN LStrip(Tail(s)) ELSE s

RECURSIVE RStrip(_)
RStrip(s) ==
    IF s # <<>> /\ IsSpace(s[Len(s)]) THEN RStrip(SubSeq(s, 1, Len(s) - 1)) ELSE s

\* str.strip()
Strip(s) == LStrip(RStrip(s))

Digits == {"0", "1", "2", "3", "4", "5", "6", "7", "8", "9"}

DigitVal(c) ==
    CASE c = "0" -> 0 [] c = "1" -> 1 [] c = "2" -> 2 [] c = "3" -> 3
      [] c = "4" -> 4 [] c = "5" -> 5 [] c = "6" -> 6 [] c = "7" -> 7
      [] c = "8" -> 8 [] c = "9" -> 9

RECURSIVE DigitsVal(_)
DigitsVal(s) ==
    IF s = <<>> THEN 0
    ELSE 10 * DigitsVal(SubSeq(s, 1, Len(s) - 1)) + DigitVal(s[Len(s)])

\* int(x): an int is itself; a str is stripped, then an optional sign and
\* one or more decimal digits; anything else raises.
PyIntOf(x) ==
    CASE x.t = "int"  -> x
      [] x.t = "none" -> Raise("TypeError", "int() argument")
      [] x.t = "str"  ->
            LET s    == Strip(x.v)
                neg  == s # <<>> /\ Head(s) = "-"
                body == IF s # <<>> /\ Head(s) \in {"-", "+"} THEN Tail(s) ELSE s
            IN  IF body # <<>> /\ \A i \in 1..Len(body) : body[i] \in Digits
                THEN PyInt(IF neg THEN 0 - DigitsVal(body) ELSE DigitsVal(body))
                ELSE Raise("ValueError", "invalid literal for int()")

(***************************************************************************)
(* String constants of the program.                                        *)
(***************************************************************************)
Available == PyStr(<<"a", "v", "a", "i", "l", "a", "b", "l", "e">>)
Issued    == PyStr(<<"i", "s", "s", "u", "e", "d">>)

NotFound      == Raise("ValueError", "Book not found")
AlreadyIssued == Raise("ValueError", "Book already issued")
NotIssued     == Raise("ValueError", "Book is not issued")

(***************************************************************************)
(* The books table.  db.books is the set of rows, db.seq the largest rowid *)
(* ever handed out (sqlite_sequence, kept because of AUTOINCREMENT).       *)
(***************************************************************************)
Row(id, title, author, year, isbn, status, issued_to) ==
    [id |-> id, title |-> title, author |-> author, year |-> year,
     isbn |-> isbn, status |-> status, issued_to |-> issued_to]

EmptyDb == [books |-> {}, seq |-> 0]

Ids(d) == {r.id : r \in d.books}

SetMax(S) == IF S = {} THEN 0 ELSE CHOOSE m \in S : \A x \in S : x <= m

\* (mutant) INTEGER PRIMARY KEY without AUTOINCREMENT: one more than the
\* largest rowid now in the table
NextRowId_NoAutoincrement(d) == SetMax(Ids(d)) + 1

\* INTEGER PRIMARY KEY AUTOINCREMENT: one more than the largest rowid that
\* has ever been in the table.
NextRowId(d) == SetMax(Ids(d) \cup {d.seq}) + 1

_to_int(val) ==
    LET n == PyIntOf(val) IN IF n.t = "raise" THEN PyNone ELSE n

\* INSERT INTO books (title, author, year, isbn): status takes its DEFAULT,
\* issued_to is NULL.  Returns the new table and cur.lastrowid.
add_book(d, title, author, year, isbn) ==
    LET id == NextRowId(d)
    IN  [db  |-> [books |-> d.books \cup
                     {Row(id, title, author, PyOr(year, PyNone), isbn, Available, PyNone)},
                  seq   |-> id],
         ret |-> PyInt(id)]

\* (mutant) INSERT OR REPLACE instead of UPDATE: writes the row also when
\* no row has the id
update_book_upsert(d, book_id, title, author, year, isbn, status, issued_to) ==
    LET bid == _to_int(book_id)
    IN  IF bid = PyNone THEN d
        ELSE [d EXCEPT !.books =
                 {r \in d.books : r.id # bid.v} \cup
                 {Row(bid.v, title, author, PyOr(year, PyNone), isbn,
                      PyOr(status, Available), issued_to)}]

\* UPDATE books SET ... WHERE id=?
update_book(d, book_id, title, author, year, isbn, status, issued_to) ==
    LET bid == _to_int(book_id)
    IN  IF bid = PyNone THEN d
        ELSE [d EXCEPT !.books =
                 {IF r.id = bid.v
                  THEN Row(r.id, title, author, PyOr(year, PyNone), isbn,
                           PyOr(status, Available), issued_to)
                  ELSE r : r \in d.books}]

\* a delete that loses its WHERE clause: DELETE FROM books
delete_book_no_where(d, book_id) ==
    LET bid == _to_int(book_id)
    IN  IF bid = PyNone THEN d
        ELSE [d EXCEPT !.books = {}]

\* DELETE FROM books WHERE id=?
delete_book(d, book_id) ==
    LET bid == _to_int(book_id)
    IN  IF bid = PyNone THEN d
        ELSE [d EXCEPT !.books = {r \in d.books : r.id # bid.v}]

\* SELECT ... WHERE id=? ; fetchone(): the row, or None
get_book(d, book_id) ==
    LET bid == _to_int(book_id)
    IN  IF bid = PyNone THEN PyNone
        ELSE IF \E r \in d.books : r.id = bid.v
             THEN [t |-> "row", row |-> CHOOSE r \in d.books : r.id = bid.v]
             ELSE PyNone

RECURSIVE SortById(_)
SortById(S) ==
    IF S = {} THEN <<>>
    ELSE LET r == CHOOSE x \in S : \A y \in S : x.id <= y.id
         IN  <<r>> \o SortById(S \ {r})

\* SELECT ... ORDER BY id ; fetchall()
list_all(d) == SortById(d.books)

UpperCase == <<"A", "B", "C", "D", "E", "F", "G", "H", "I", "J", "K", "L", "M",
               "N", "O", "P", "Q", "R", "S", "T", "U", "V", "W", "X", "Y", "Z">>
LowerCase == <<"a", "b", "c", "d", "e", "f", "g", "h", "i", "j", "k", "l", "m",
               "n", "o", "p", "q", "r", "s", "t", "u", "v", "w", "x", "y", "z">>

\* SQLite compares the ASCII letters of LIKE without regard to case
Fold(c) ==
    IF \E i \in 1..Len(UpperCase) : UpperCase[i] = c
    THEN LowerCase[CHOOSE i \in 1..Len(UpperCase) : UpperCase[i] = c]
    ELSE c

\* text LIKE pattern of SQLite, no ESCAPE: % is any run of characters, _ is
\* any one character, every other character is itself
RECURSIVE Like(_, _)
Like(pattern, text) ==
    IF pattern = <<>> THEN text = <<>>
    ELSE IF Head(pattern) = "%"
         THEN \E k \in 0..Len(text) :
                 Like(Tail(pattern), SubSeq(text, k + 1, Len(text)))
    ELSE IF text = <<>> THEN FALSE
    ELSE IF Head(pattern) = "_" THEN Like(Tail(pattern), Tail(text))
    ELSE Fold(Head(pattern)) = Fold(Head(text)) /\ Like(Tail(pattern), Tail(text))

\* column LIKE ? bound to f'%{param}%' ; NULL LIKE anything is no match
SqlLike(value, param) ==
    value.t = "str" /\ Like(<<"%">> \o param.v \o <<"%">>, value.v)

\* if title: ... 'title LIKE ?' ; if author: ... 'author LIKE ?' ; the
\* clauses joined by AND ; ORDER BY id
search(d, title, author) ==
    SortById({r \in d.books :
                 /\ Truthy(title) => SqlLike(r.title, title)
                 /\ Truthy(author) => SqlLike(r.author, author)})

(***************************************************************************)
(* Lending transitions: read the row, validate, write the full row back.   *)
(***************************************************************************)
\* (mutant) the check of the status left out
issue_check_found_only(book) ==
    IF book = PyNone THEN NotFound ELSE PyNone

\* issue_book's validation of the row it read (None: the checks pass)
issue_check(book) ==
    IF book = PyNone THEN NotFound
    ELSE IF book.row.status = Issued THEN AlreadyIssued
    ELSE PyNone

\* issue_book's write: the row as it was read, with the new lending state
issue_write(d, book, issued_to) ==
    update_book(d, PyInt(book.row.id), book.row.title, book.row.author,
                book.row.year, book.row.isbn, Issued, issued_to)

\* (mutant) the update before the check of the status
issue_book_write_first(d, book_id, issued_to) ==
    LET book == get_book(d, book_id)
        e    == issue_check(book)
    IN  IF book = PyNone THEN [db |-> d, ret |-> e]
        ELSE [db |-> issue_write(d, book, issued_to), ret |-> e]

issue_book(d, book_id, issued_to) ==
    LET book == get_book(d, book_id)
        e    == issue_check(book)
    IN  IF e # PyNone THEN [db |-> d, ret |-> e]
        ELSE [db |-> issue_write(d, book, issued_to), ret |-> PyNone]

return_check(book) ==
    IF book = PyNone THEN NotFound
    ELSE IF book.row.status = Available THEN NotIssued
    ELSE PyNone

\* (mutant) issued_to written back as it was read
return_write_keeps_borrower(d, book) ==
    update_book(d, PyInt(book.row.id), book.row.title, book.row.author,
                book.row.year, book.row.isbn, Available, book.row.issued_to)

return_write(d, book) ==
    update_book(d, PyInt(book.row.id), book.row.title, book.row.author,
                book.row.year, book.row.isbn, Available, PyNone)

return_book(d, book_id) ==
    LET book == get_book(d, book_id)
        e    == return_check(book)
    IN  IF e # PyNone THEN [db |-> d, ret |-> e]
        ELSE [db |-> return_write(d, book), ret |-> PyNone]

(***************************************************************************)
(* CSV import.  A file is its header (the field names) and its data rows,  *)
(* each a sequence of cells, as csv.reader yields them.                    *)
(***************************************************************************)
\* csv.DictReader's row r, then r.get(key, ''): a cell the row is too short
\* for is None (restval); a field the header lacks gives the default.
DictGet(header, cells, key) ==
    IF \E i \in 1..Len(header) : header[i] = key
    THEN LET i == CHOOSE j \in 1..Len(header) :
                     /\ header[j] = key
                     /\ \A k \in 1..Len(header) : header[k] = key => k <= j
         IN  IF i <= Len(cells) THEN PyStr(cells[i]) ELSE PyNone
    ELSE PyStr(<<>>)

\* x.strip() of a cell value: None has no strip
StripOf(x) ==
    IF x.t = "str" THEN PyStr(Strip(x.v))
    ELSE Raise("AttributeError", "'NoneType' object has no attribute 'strip'")

\* year = int(year_raw) if year_raw else None ; except ValueError: None
import_year(year_raw) ==
    IF ~Truthy(year_raw) THEN PyNone
    ELSE LET n == PyIntOf(year_raw) IN IF n.t = "raise" THEN PyNone ELSE n

Added   == [t |-> "added"]
Skipped == [t |-> "skipped"]

\* (mutant) the title tested before it is stripped
import_row_raw_title(d, header, cells) ==
    LET raw    == DictGet(header, cells, "title")
        title  == StripOf(raw)
        author == StripOf(DictGet(header, cells, "author"))
        year_s == StripOf(DictGet(header, cells, "year"))
        isbn   == StripOf(DictGet(header, cells, "isbn"))
    IN  IF title.t = "raise" THEN [db |-> d, ret |-> title]
        ELSE IF ~Truthy(raw) THEN [db |-> d, ret |-> Skipped]
        ELSE IF author.t = "raise" THEN [db |-> d, ret |-> author]
        ELSE IF year_s.t = "raise" THEN [db |-> d, ret |-> year_s]
        ELSE IF isbn.t = "raise" THEN [db |-> d, ret |-> isbn]
        ELSE [db  |-> add_book(d, title, author, import_year(year_s), isbn).db,
              ret |-> Added]

\* One pass of the loop body over a row of the DictReader.  ret is Added,
\* Skipped (continue) or the exception that leaves the loop.
import_row(d, header, cells) ==
    LET title  == StripOf(DictGet(header, cells, "title"))
        author == StripOf(DictGet(header, cells, "author"))
        year_s == StripOf(DictGet(header, cells, "year"))
        isbn   == StripOf(DictGet(header, cells, "isbn"))
    IN  IF title.t = "raise" THEN [db |-> d, ret |-> title]
        ELSE IF ~Truthy(title) THEN [db |-> d, ret |-> Skipped]
        ELSE IF author.t = "raise" THEN [db |-> d, ret |-> author]
        ELSE IF year_s.t = "raise" THEN [db |-> d, ret |-> year_s]
        ELSE IF isbn.t = "raise" THEN [db |-> d, ret |-> isbn]
        ELSE [db  |-> add_book(d, title, author, import_year(year_s), isbn).db,
              ret |-> Added]

RECURSIVE import_loop(_, _, _, _)
import_loop(d, header, rows, added) ==
    IF rows = <<>> THEN [db |-> d, ret |-> PyInt(added)]
    ELSE IF Head(rows) = <<>>
         THEN import_loop(d, header, Tail(rows), added)   \* DictReader skips blank rows
    ELSE LET r == import_row(d, header, Head(rows))
         IN  IF r.ret = Added THEN import_loop(r.db, header, Tail(rows), added + 1)
             ELSE IF r.ret = Skipped THEN import_loop(d, header, Tail(rows), added)
             ELSE r

\* io.TextIOWrapper(fileobj, encoding='utf-8') reads with universal
\* newlines: "\r\n" and "\r" become "\n", inside quoted cells as well
RECURSIVE UniversalNewlines(_)
UniversalNewlines(s) ==
    IF s = <<>> THEN <<>>
    ELSE IF Head(s) = "\r"
         THEN <<"\n">> \o UniversalNewlines(IF Len(s) >= 2 /\ s[2] = "\n"
                                            THEN Tail(Tail(s)) ELSE Tail(s))
    ELSE <<Head(s)>> \o UniversalNewlines(Tail(s))

\* the data rows csv.DictReader yields from the wrapped stream
TextRows(rows) ==
    IF \A k \in 1..Len(rows) : \A i \in 1..Len(rows[k]) :
          \A j \in 1..Len(rows[k][i]) : rows[k][i][j] # "\r"
    THEN rows
    ELSE [k \in 1..Len(rows) |->
             [i \in 1..Len(rows[k]) |-> UniversalNewlines(rows[k][i])]]

\* the for loop over the reader.  A stream that is no UTF-8 from some byte
\* on makes the reader raise when the loop asks for the row after the rows
\* it could still decode (file.rows); add_book has committed each of these.
import_csv_fileobj(d, file) ==
    LET r == import_loop(d, file.header, TextRows(file.rows), 0)
    IN  IF file.undecodable /\ r.ret.t = "int"
        THEN [db  |-> r.db,
              ret |-> Raise("UnicodeDecodeError", "'utf-8' codec can't decode byte")]
        ELSE r

(***************************************************************************)
(* Export.  A CSV file is its header and its data rows, each a sequence of *)
(* cells; csv.writer quotes the cells that need it, so that csv.reader     *)
(* splits the text it wrote into the same cells.                           *)
(***************************************************************************)
DigitChar(n) ==
    CASE n = 0 -> "0" [] n = 1 -> "1" [] n = 2 -> "2" [] n = 3 -> "3"
      [] n = 4 -> "4" [] n = 5 -> "5" [] n = 6 -> "6" [] n = 7 -> "7"
      [] n = 8 -> "8" [] n = 9 -> "9"

\* str(n) of an int
RECURSIVE NatStr(_)
NatStr(n) ==
    IF n < 10 THEN <<DigitChar(n)>>
    ELSE Append(NatStr(n \div 10), DigitChar(n % 10))

IntStr(n) == IF n < 0 THEN <<"-">> \o NatStr(0 - n) ELSE NatStr(n)

\* the cell csv.writer writes for a value: None as '', an int as str(int)
CsvCell(x) ==
    CASE x.t = "none" -> <<>>
      [] x.t = "int"  -> IntStr(x.v)
      [] x.t = "str"  -> x.v

ExportHeader == <<"id", "title", "author", "year", "isbn", "status", "issued_to">>

\* [row[0], row[1] or '', ..., row[6] or '']
export_row(r) ==
    LET e == PyStr(<<>>)
    IN  << CsvCell(PyInt(r.id)), CsvCell(PyOr(r.title, e)),
           CsvCell(PyOr(r.author, e)), CsvCell(PyOr(r.year, e)),
           CsvCell(PyOr(r.isbn, e)), CsvCell(PyOr(r.status, e)),
           CsvCell(PyOr(r.issued_to, e)) >>

export_csv_bytes(d) ==
    LET rows == list_all(d)
    IN  [header |-> ExportHeader,
         rows   |-> [k \in 1..Len(rows) |-> export_row(rows[k])],
         undecodable |-> FALSE]

(***************************************************************************)
(* Inputs of the model.                                                    *)
(***************************************************************************)
Dune    == PyStr(<<"D", "u", "n", "e">>)
Herbert == PyStr(<<"H", "e", "r", "b", "e", "r", "t">>)
Emma    == PyStr(<<"E", "m", "m", "a">>)
Austen  == PyStr(<<"A", "u", "s", "t", "e", "n">>)
Isbn123 == PyStr(<<"1", "2", "3">>)
Isbn456 == PyStr(<<"4", "5", "6">>)
\* a title of two lines, the line break a carriage return
TwoLines == PyStr(<<"a", "\r", "b">>)
Alice   == PyStr(<<"A", "l", "i", "c", "e">>)
Bob     == PyStr(<<"B", "o", "b">>)

\* <<title, author, year, isbn>> as callers pass them to add and update
BookArgs ==
    { <<Dune, Herbert, PyInt(1965), Isbn123>>,
      <<Emma, Austen, PyNone, Isbn456>>,
      <<Emma, Austen, PyInt(0), Isbn456>> }
\* the books added before an export: a carriage return inside a title, a
\* year below zero, an empty author and isbn
ExportArgs ==
    BookArgs \cup { <<TwoLines, PyStr(<<>>), PyInt(0 - 44), PyStr(<<>>)>> }
\* <<title, author>> as callers pass them to search: no constraint, empty
\* text, part of a title in lower case, part of an author in upper case,
\* both, a text with the character _
SearchArgs ==
    { <<PyNone, PyNone>>,
      <<PyStr(<<>>), PyStr(<<>>)>>,
      <<PyStr(<<"d", "u", "n">>), PyNone>>,
      <<PyNone, PyStr(<<"H", "E", "R", "B">>)>>,
      <<PyStr(<<"m">>), PyStr(<<"a">>)>>,
      <<PyStr(<<"d", "_", "n">>), PyNone>> }
\* <<title, author, y, isbn>> of the forms posted to save_book
SaveArgs == { <<Emma, Austen, PyNone, Isbn456>> }
\* status and issued_to as callers pass them to update (status None is the
\* parameter's default, and is stored as 'available')
StatusArgs   == {PyNone, Issued}
IssuedToArgs == {PyNone, Alice}
Borrowers    == {Alice, Bob, PyNone}

\* book ids as callers pass them: ints, a numeric string, a string that is
\* no number
RawIds == {PyInt(n) : n \in 1..MaxAdds} \cup {PyStr(<<"1">>), PyStr(<<"x">>)}

IntIds == {PyInt(n) : n \in 1..MaxAdds}

Header == <<"title", "author", "year", "isbn">>

\* data rows of imported files: cells padded with blanks; a blank title; a
\* year that is no number, zero, empty; a row shorter than the header; an
\* empty line
RowPadded   == <<<<" ">> \o Dune.v \o <<" ">>, <<" ">> \o Herbert.v,
                 <<"1", "9", "6", "5", " ">>, <<" ">> \o Isbn123.v>>
RowNoTitle  == <<<<" ">>, Herbert.v, <<"2", "0", "0", "0">>, <<>>>>
RowBadYear  == <<Emma.v, Austen.v, <<"x">>, Isbn456.v>>
RowZeroYear == <<Emma.v, Austen.v, <<"0">>, Isbn456.v>>
RowNoYear   == <<Emma.v, Austen.v, <<>>, Isbn456.v>>
RowShort    == <<Dune.v>>
RowEmpty    == <<>>

CsvRows == {RowPadded, RowNoTitle, RowBadYear, RowZeroYear, RowNoYear, RowShort}

RECURSIVE SeqsUpTo(_, _)
SeqsUpTo(S, n) ==
    IF n = 0 THEN {<<>>}
    ELSE LET shorter == SeqsUpTo(S, n - 1)
         IN  shorter \cup {Append(q, x) : q \in shorter, x \in S}

File(rows) == [header |-> Header, rows |-> rows, undecodable |-> FALSE]

\* a file whose bytes after these rows are no UTF-8
CutFile(rows) == [header |-> Header, rows |-> rows, undecodable |-> TRUE]

\* every file of at most MaxRows data rows, and files that are cut off
\* after at most MaxRows rows
Files ==
    {File(rs) : rs \in SeqsUpTo(CsvRows, MaxRows)}
       \cup {CutFile(rs) : rs \in SeqsUpTo({RowPadded, RowNoTitle}, MaxRows)}

\* the files imported between the other calls of Spec
SomeFiles == {File(<<RowNoTitle, RowPadded>>), File(<<RowEmpty, RowBadYear>>), File(<<RowShort>>)}

Clients == {"c1", "c2"}

(***************************************************************************)
(* State.  db is the database file; last is the call the single caller of  *)
(* Spec made last, with what it returned; cl is, per request thread of     *)
(* SpecConc, the call it is in and its local variables.  handed is a       *)
(* history variable: every id a row has been inserted under so far.        *)
(***************************************************************************)
NoCall == [op |-> "none", args |-> <<>>, result |-> PyNone]

\* A request thread: pc is where it stands ("idle": between calls, and then
\* op, args and result are the call it made last); book, arg, rows and added
\* are the local variables of the call it is in; rivals are the threads that
\* were between the read and the write of issue_book on the same id when
\* this thread's issue_book read the row.
Thread(pc, op, args, result, book, arg, rows, added, rivals) ==
    [pc |-> pc, op |-> op, args |-> args, result |-> result, book |-> book,
     arg |-> arg, rows |-> rows, added |-> added, rivals |-> rivals]

Idle == Thread("idle", "none", <<>>, PyNone, PyNone, PyNone, <<>>, 0, {})

Returned(op, args, result, rivals) ==
    Thread("idle", op, args, result, PyNone, PyNone, <<>>, 0, rivals)

Init ==
    /\ db = EmptyDb
    /\ last = NoCall
    /\ cl = [c \in Clients |-> Idle]
    /\ handed = {}

Call(op, args, result) == [op |-> op, args |-> args, result |-> result]

(***************************************************************************)
(* Spec: the methods of LibraryDB, each called and run to completion.      *)
(***************************************************************************)
AddBook(title, author, year, isbn) ==
    /\ db.seq < MaxAdds
    /\ LET r == add_book(db, title, author, year, isbn)
       IN  /\ db' = r.db
           /\ last' = Call("add", <<title, author, year, isbn>>, r.ret)
           /\ handed' = handed \cup {r.ret.v}
    /\ UNCHANGED cl

UpdateBook(book_id, title, author, year, isbn, status, issued_to) ==
    /\ db' = update_book(db, book_id, title, author, year, isbn, status, issued_to)
    /\ last' = Call("update", <<book_id>>, PyNone)
    /\ UNCHANGED <<cl, handed>>

DeleteBook(book_id) ==
    /\ db' = delete_book(db, book_id)
    /\ last' = Call("delete", <<book_id>>, PyNone)
    /\ UNCHANGED <<cl, handed>>

GetBook(book_id) ==
    /\ last' = Call("get", <<book_id>>, get_book(db, book_id))
    /\ UNCHANGED <<db, cl, handed>>

ListAll ==
    /\ last' = Call("list", <<>>, [t |-> "rows", rows |-> list_all(db)])
    /\ UNCHANGED <<db, cl, handed>>

IssueBook(book_id, issued_to) ==
    /\ LET r == issue_book(db, book_id, issued_to)
       IN  /\ db' = r.db
           /\ last' = Call("issue", <<book_id, issued_to>>, r.ret)
    /\ UNCHANGED <<cl, handed>>

ReturnBook(book_id) ==
    /\ LET r == return_book(db, book_id)
       IN  /\ db' = r.db
           /\ last' = Call("return", <<book_id>>, r.ret)
    /\ UNCHANGED <<cl, handed>>

ImportCsv(file) ==
    /\ \E r \in {import_csv_fileobj(db, file)} :
           /\ r.db.seq <= MaxAdds
           /\ db' = r.db
           /\ last' = Call("import", <<file>>, r.ret)
           /\ handed' = handed \cup (Ids(r.db) \ Ids(db))
    /\ UNCHANGED cl

Search(title, author) ==
    /\ last' = Call("search", <<title, author>>,
                    [t |-> "rows", rows |-> search(db, title, author)])
    /\ UNCHANGED <<db, cl, handed>>

ExportCsv ==
    /\ last' = Call("export", <<>>, [t |-> "file", file |-> export_csv_bytes(db)])
    /\ UNCHANGED <<db, cl, handed>>

Next ==
    \/ \E x \in BookArgs : AddBook(x[1], x[2], x[3], x[4])
    \/ \E id \in RawIds, x \in BookArgs, s \in StatusArgs, to \in IssuedToArgs :
          UpdateBook(id, x[1], x[2], x[3], x[4], s, to)
    \/ \E id \in RawIds : DeleteBook(id)
    \/ \E id \in RawIds : GetBook(id)
    \/ ListAll
    \/ \E x \in SearchArgs : Search(x[1], x[2])
    \/ \E id \in RawIds, b \in Borrowers : IssueBook(id, b)
    \/ \E id \in RawIds : ReturnBook(id)
    \/ \E f \in SomeFiles : ImportCsv(f)
    \/ ExportCsv

Spec == Init /\ [][Next]_vars

(***************************************************************************)
(* SpecImport: imports of every file of the bound, and deletes between     *)
(* them.                                                                   *)
(***************************************************************************)
NextImport ==
    \/ \E f \in Files : ImportCsv(f)
    \/ \E id \in RawIds : DeleteBook(id)

SpecImport == Init /\ [][NextImport]_vars

(***************************************************************************)
(* SpecExport: exports of the stores that adds, lending and deletes make.  *)
(***************************************************************************)
NextExport ==
    \/ \E x \in ExportArgs : AddBook(x[1], x[2], x[3], x[4])
    \/ \E id \in IntIds : IssueBook(id, Alice)
    \/ \E id \in IntIds : DeleteBook(id)
    \/ ExportCsv

SpecExport == Init /\ [][NextExport]_vars

(***************************************************************************)
(* SpecConc: request threads.  Each statement of a method (one connection, *)
(* one commit) is a step; the steps of different threads interleave.       *)
(***************************************************************************)
\* the name each thread's issue request carries
BorrowerOf(c) == IF c = "c1" THEN Alice ELSE Bob

TAdd(c, title, author, year, isbn) ==
    /\ cl[c].pc = "idle"
    /\ db.seq < MaxAdds
    /\ LET r == add_book(db, title, author, year, isbn)
       IN  /\ db' = r.db
           /\ cl' = [cl EXCEPT ![c] = Returned("add", <<>>, r.ret, {})]
           /\ handed' = handed \cup {r.ret.v}
    /\ UNCHANGED last

TUpdate(c, book_id, title, author, year, isbn) ==
    /\ cl[c].pc = "idle"
    /\ db' = update_book(db, book_id, title, author, year, isbn, PyNone, PyNone)
    /\ cl' = [cl EXCEPT ![c] = Returned("update", <<>>, PyNone, {})]
    /\ UNCHANGED <<last, handed>>

TDelete(c, book_id) ==
    /\ cl[c].pc = "idle"
    /\ db' = delete_book(db, book_id)
    /\ cl' = [cl EXCEPT ![c] = Returned("delete", <<>>, PyNone, {})]
    /\ UNCHANGED <<last, handed>>

\* issue_book up to its update_book: get_book and the two checks
IssueRead(c, book_id, issued_to) ==
    /\ cl[c].pc = "idle"
    /\ LET book   == get_book(db, book_id)
           e      == issue_check(book)
           rivals == {o \in Clients \ {c} :
                         /\ cl[o].pc = "issue_w"
                         /\ PyInt(cl[o].book.row.id) = _to_int(book_id)}
       IN  cl' = [cl EXCEPT ![c] =
                     IF e # PyNone
                     THEN Returned("issue", <<book_id>>, e, {})
                     ELSE Thread("issue_w", "issue", <<book_id>>, PyNone,
                                 book, issued_to, <<>>, 0, rivals)]
    /\ UNCHANGED <<db, last, handed>>

\* issue_book's update_book, and its return
IssueWrite(c) ==
    /\ cl[c].pc = "issue_w"
    /\ db' = issue_write(db, cl[c].book, cl[c].arg)
    /\ cl' = [cl EXCEPT ![c] = Returned("issue", cl[c].args, PyNone, cl[c].rivals)]
    /\ UNCHANGED <<last, handed>>

ReturnRead(c, book_id) ==
    /\ cl[c].pc = "idle"
    /\ LET book == get_book(db, book_id)
           e    == return_check(book)
       IN  cl' = [cl EXCEPT ![c] =
                     IF e # PyNone
                     THEN Returned("return", <<>>, e, {})
                     ELSE Thread("return_w", "return", <<>>, PyNone,
                                 book, PyNone, <<>>, 0, {})]
    /\ UNCHANGED <<db, last, handed>>

ReturnWrite(c) ==
    /\ cl[c].pc = "return_w"
    /\ db' = return_write(db, cl[c].book)
    /\ cl' = [cl EXCEPT ![c] = Returned("return", cl[c].args, PyNone, {})]
    /\ UNCHANGED <<last, handed>>

\* the route save_book for a form with an id, up to its update_book:
\* existing = db.get_book(bid).  fields is <<title, author, y, isbn>> of the
\* form.
SaveRead(c, book_id, fields) ==
    /\ cl[c].pc = "idle"
    /\ cl' = [cl EXCEPT ![c] =
                 Thread("save_w", "save", <<book_id>>, PyNone, get_book(db, book_id),
                        [t |-> "fields", v |-> fields], <<>>, 0, {})]
    /\ UNCHANGED <<db, last, handed>>

\* status = existing[5] if existing else 'available' ; issued_to =
\* existing[6] if existing else None ; db.update_book(bid, ..., status=status,
\* issued_to=issued_to)
SaveWrite(c) ==
    /\ cl[c].pc = "save_w"
    /\ LET existing  == cl[c].book
           f         == cl[c].arg.v
           status    == IF existing # PyNone THEN existing.row.status ELSE Available
           issued_to == IF existing # PyNone THEN existing.row.issued_to ELSE PyNone
       IN  db' = update_book(db, cl[c].args[1], f[1], f[2], f[3], f[4], status, issued_to)
    /\ cl' = [cl EXCEPT ![c] = Returned("save", <<>>, PyNone, {})]
    /\ UNCHANGED <<last, handed>>

\* import_csv_fileobj up to its loop: the DictReader over the file
ImportOpen(c, file) ==
    /\ cl[c].pc = "idle"
    /\ cl' = [cl EXCEPT ![c] =
                 Thread("import", "import", <<>>, PyNone, PyNone, PyNone,
                        TextRows(file.rows), 0, {})]
    /\ UNCHANGED <<db, last, handed>>

\* one row of the DictReader and the loop body on it (at most one add_book);
\* after the last row, the return of the count
ImportRow(c) ==
    /\ cl[c].pc = "import"
    /\ IF cl[c].rows = <<>>
       THEN /\ cl' = [cl EXCEPT ![c] = Returned("import", <<>>, PyInt(cl[c].added), {})]
            /\ UNCHANGED <<db, handed>>
       ELSE LET r == IF Head(cl[c].rows) = <<>> THEN [db |-> db, ret |-> Skipped]
                     ELSE import_row(db, Header, Head(cl[c].rows))
            IN  /\ r.db.seq <= MaxAdds
                /\ db' = r.db
                /\ handed' = handed \cup (Ids(r.db) \ Ids(db))
                /\ cl' = [cl EXCEPT ![c] =
                             IF r.ret \in {Added, Skipped}
                             THEN [cl[c] EXCEPT !.rows = Tail(@),
                                                !.added = IF r.ret = Added THEN @ + 1 ELSE @]
                             ELSE Returned("import", <<>>, r.ret, {})]
    /\ UNCHANGED last

NextConc ==
    \/ \E c \in Clients, x \in BookArgs : TAdd(c, x[1], x[2], x[3], x[4])
    \/ \E c \in Clients, id \in IntIds, x \in BookArgs :
          TUpdate(c, id, x[1], x[2], x[3], x[4])
    \/ \E c \in Clients, id \in IntIds : TDelete(c, id)
    \/ \E c \in Clients, id \in IntIds : IssueRead(c, id, BorrowerOf(c))
    \/ \E c \in Clients : IssueWrite(c)
    \/ \E c \in Clients, id \in IntIds : ReturnRead(c, id)
    \/ \E c \in Clients : ReturnWrite(c)
    \/ \E c \in Clients, f \in SomeFiles : ImportOpen(c, f)
    \/ \E c \in Clients : ImportRow(c)

SpecConc == Init /\ [][NextConc]_vars

(***************************************************************************)
(* SpecSave: request threads that add, lend, and edit books through the    *)
(* route save_book.                                                        *)
(***************************************************************************)
NextSave ==
    \/ \E c \in Clients, x \in BookArgs : TAdd(c, x[1], x[2], x[3], x[4])
    \/ \E c \in Clients, id \in IntIds : IssueRead(c, id, BorrowerOf(c))
    \/ \E c \in Clients : IssueWrite(c)
    \/ \E c \in Clients, id \in IntIds : ReturnRead(c, id)
    \/ \E c \in Clients : ReturnWrite(c)
    \/ \E c \in Clients, id \in IntIds, x \in SaveArgs : SaveRead(c, id, x)
    \/ \E c \in Clients : SaveWrite(c)

SpecSave == Init /\ [][NextSave]_vars

(***************************************************************************)
(* Properties.                                                             *)
(***************************************************************************)
\* the row of table d with id n
RowOf(d, n) == CHOOSE r \in d.books : r.id = n

\* the book id a caller passed resolves to a row of table d
Resolves(d, book_id) ==
    _to_int(book_id) # PyNone /\ _to_int(book_id).v \in Ids(d)

SameText(r1, r2) ==
    /\ r1.title = r2.title
    /\ r1.author = r2.author
    /\ r1.year = r2.year
    /\ r1.isbn = r2.isbn

\* C1 (SpecConc).  Lending exclusivity: of two issue_book calls on the same
\* id that overlap (one read the row, found it available, while the other
\* was between its own read and write), exactly one returns without error
\* and the other raises 'Book already issued'.
C1_LendingExclusivity ==
    \A c \in Clients : \A o \in Clients \ {c} :
        ( /\ cl[c].pc = "idle" /\ cl[c].op = "issue"
          /\ cl[o].pc = "idle" /\ cl[o].op = "issue"
          /\ cl[c].args = cl[o].args
          /\ o \in cl[c].rivals )
        => \/ cl[c].result = PyNone /\ cl[o].result = AlreadyIssued
           \/ cl[o].result = PyNone /\ cl[c].result = AlreadyIssued

\* C2 (Spec).  In every state of the table, for every row:
\* status = 'issued' iff issued_to is not NULL.
C2_IssuedIffIssuedTo ==
    \A r \in db.books : (r.status = Issued) <=> (r.issued_to # PyNone)

\* C3 (Spec).  issue_book(id, borrower) without interference: raises 'Book
\* not found' when id resolves to no row, 'Book already issued' when the
\* row's status is 'issued', and otherwise returns leaving the row with
\* status 'issued', issued_to = borrower and title, author, year, isbn as
\* they were; the two errors differ.
C3_IssueContract ==
    [][ last'.op = "issue" =>
          LET id == last'.args[1]
              b  == last'.args[2]
          IN  /\ ~Resolves(db, id) => last'.result = NotFound
              /\ Resolves(db, id) =>
                   LET n == _to_int(id).v
                       r == RowOf(db, n)
                   IN  IF r.status = Issued
                       THEN last'.result = AlreadyIssued
                       ELSE /\ last'.result = PyNone
                            /\ n \in Ids(db')
                            /\ RowOf(db', n) =
                                 [r EXCEPT !.status = Issued, !.issued_to = b]
              /\ NotFound # AlreadyIssued
      ]_vars

C3_Witness ==
    /\ last.op = "issue"
    /\ last.result = PyNone
    /\ last.args[2] = Alice
    /\ \E r \in db.books :
          /\ PyInt(r.id) = _to_int(last.args[1])
          /\ r.status = Issued
          /\ r.issued_to = Alice
          /\ r.title = Dune

\* C4 (Spec).  return_book(id) without interference: raises 'Book not found'
\* when id resolves to no row, 'Book is not issued' when the row's status is
\* 'available', and otherwise returns leaving the row with status
\* 'available', issued_to NULL and title, author, year, isbn as they were;
\* return_book(id) called again right after a successful one raises 'Book is
\* not issued'.
C4_ReturnContract ==
    [][ last'.op = "return" =>
          LET id == last'.args[1]
          IN  /\ ~Resolves(db, id) => last'.result = NotFound
              /\ Resolves(db, id) =>
                   LET n == _to_int(id).v
                       r == RowOf(db, n)
                   IN  IF r.status = Available
                       THEN last'.result = NotIssued
                       ELSE /\ last'.result = PyNone
                            /\ n \in Ids(db')
                            /\ RowOf(db', n) =
                                 [r EXCEPT !.status = Available, !.issued_to = PyNone]
                            /\ return_book(db', id).ret = NotIssued
                            /\ return_book(db', id).db = db'
      ]_vars

C4_Witness ==
    /\ last.op = "return"
    /\ last.result = PyNone
    /\ \E r \in db.books :
          /\ PyInt(r.id) = _to_int(last.args[1])
          /\ r.status = Available
          /\ r.issued_to = PyNone
          /\ r.title = Emma

\* C5 (Spec).  A failed lending transition changes nothing: when issue_book
\* or return_book raises, the table is as it was before the call; so
\* issue_book(id, 'Bob') on a book issued to Alice leaves issued_to 'Alice'.
C5_FailedTransitionChangesNothing ==
    [][ (last'.op \in {"issue", "return"} /\ last'.result # PyNone) =>
          /\ last'.result \in {NotFound, AlreadyIssued, NotIssued}
          /\ db' = db
      ]_vars

C5_Witness ==
    /\ last.op = "issue"
    /\ last.args[2] = Bob
    /\ last.result = AlreadyIssued
    /\ \E r \in db.books :
          /\ PyInt(r.id) = _to_int(last.args[1])
          /\ r.status = Issued
          /\ r.issued_to = Alice

\* C6 (SpecConc).  The read-validate-write of a lending transition is atomic
\* with respect to the other thread's writes to the same id: the write of a
\* successful issue_book or return_book leaves title, author, year and isbn
\* of the row as they are in the table at that moment.
C6_TransitionKeepsCommittedText ==
    [][ \A c \in Clients :
          (cl[c].pc \in {"issue_w", "return_w"} /\ cl'[c].pc = "idle") =>
             LET n == cl[c].book.row.id
             IN  n \in Ids(db) =>
                    /\ n \in Ids(db')
                    /\ SameText(RowOf(db, n), RowOf(db', n))
      ]_vars

\* C7 (SpecConc).  Ids are unique and strictly increasing: no two rows share
\* an id; every id an insert hands out is greater than every id handed out
\* before (so the id of a deleted row is never used again); and the table
\* gains an id only by an insert handing it out.
C7_IdsUniqueIncreasing ==
    /\ [](\A r1 \in db.books : \A r2 \in db.books : r1.id = r2.id => r1 = r2)
    /\ [][ /\ \A n \in handed' \ handed : \A m \in handed : n > m
           /\ Ids(db') \ Ids(db) = handed' \ handed
           /\ \A c \in Clients :
                 (cl'[c] # cl[c] /\ cl'[c].pc = "idle" /\ cl'[c].op = "add") =>
                    handed' \ handed = {cl'[c].result.v}
         ]_vars

\* thread c1 added, deleted its row and added again; c2 did nothing
C7_Witness ==
    /\ handed = {1, 2}
    /\ Ids(db) = {2}
    /\ cl["c1"].op = "add"
    /\ cl["c1"].result = PyInt(2)
    /\ cl["c2"] = Idle

\* C8 (Spec).  update_book and delete_book with an id that is no integer or
\* matches no row return without error and leave the table as it was.
C8_BadIdIsNoOp ==
    [][ (last'.op \in {"update", "delete"} /\ ~Resolves(db, last'.args[1])) =>
          /\ last'.result = PyNone
          /\ db' = db
      ]_vars

C8_Witness ==
    /\ last.op = "delete"
    /\ last.args[1] = PyStr(<<"x">>)
    /\ last.result = PyNone
    /\ Cardinality(db.books) = 2

\* C9 (Spec).  add then get round-trips: get_book(add_book(title, author,
\* year, isbn)) is the row with that title, author, year and isbn, status
\* 'available' and issued_to NULL; add_book creates that one row and leaves
\* the others as they were.
C9_AddGetRoundTrip ==
    [][ last'.op = "add" =>
          LET a   == last'.args
              new == Row(last'.result.v, a[1], a[2], a[3], a[4], Available, PyNone)
          IN  /\ get_book(db', last'.result) = [t |-> "row", row |-> new]
              /\ new \notin db.books
              /\ db'.books = db.books \cup {new}
      ]_vars

\* the title cell of a data row, stripped, is not empty
HasTitle(cells) == Len(cells) >= 1 /\ Strip(cells[1]) # <<>>

\* C10 (SpecImport).  An import that reads its file to the end adds one row
\* (status 'available', issued_to NULL, title, author and isbn stripped) for
\* each data row whose stripped title is not empty, in order, adds nothing
\* for the other data rows, and returns the number of rows it added.
C10_ImportSkipsAndCounts ==
    [][ (last'.op = "import" /\ last'.result.t = "int") =>
          \A want \in {SelectSeq(last'.args[1].rows, HasTitle)},
             new \in {SortById(db'.books \ db.books)} :
              /\ db.books \subseteq db'.books
              /\ Len(new) = Len(want)
              /\ last'.result = PyInt(Len(new))
              /\ \A k \in 1..Len(new) :
                    /\ new[k].status = Available
                    /\ new[k].issued_to = PyNone
                    /\ new[k].title = PyStr(Strip(want[k][1]))
                    /\ new[k].author = PyStr(Strip(want[k][2]))
                    /\ new[k].isbn = PyStr(Strip(want[k][4]))
      ]_vars

C10_Witness ==
    /\ last.op = "import"
    /\ last.args[1].rows = <<RowNoTitle, RowPadded>>
    /\ last.result = PyInt(1)
    /\ \E r \in db.books : r.title = Dune /\ r.author = Herbert /\ r.isbn = Isbn123

\* a data row with one cell per column of the header and a title
WellFormed(cells) == Len(cells) = Len(Header) /\ HasTitle(cells)

\* C11 (SpecImport).  A malformed row never aborts an import: a row with
\* fewer cells than the header is handled by itself, the import still runs
\* to its end and returns a count, and every well-formed row with a title
\* (before or after the malformed one) is added, as long as the stream
\* itself can be read.
C11_MalformedRowDoesNotAbort ==
    [][ (last'.op = "import" /\ ~last'.args[1].undecodable) =>
          /\ last'.result.t = "int"
          /\ Cardinality(db'.books \ db.books)
                >= Len(SelectSeq(last'.args[1].rows, WellFormed))
      ]_vars

\* the year a year cell stands for: the integer its stripped text parses
\* as, absent when it parses as none
CellYear(cell) ==
    LET n == PyIntOf(PyStr(Strip(cell)))
    IN  IF n.t = "int" THEN n ELSE PyNone

\* C12 (SpecImport).  Every imported row with a title is stored with the
\* year its stripped year cell parses as (an integer n is stored as n), and
\* with no year when the cell is empty or parses as no integer.
C12_ImportYearParsing ==
    [][ (last'.op = "import" /\ last'.result.t = "int") =>
          LET want == SelectSeq(last'.args[1].rows, HasTitle)
              new  == SortById(db'.books \ db.books)
          IN  /\ Len(new) = Len(want)
              /\ \A k \in 1..Len(new) : new[k].year = CellYear(want[k][3])
      ]_vars

\* C13 (SpecExport).  Export then import round-trips: when every record of
\* the store has a title that is not empty, importing the export of the
\* store into an empty store gives as many records, in the same order, each
\* equal to the original in title, author, year and isbn.
C13_ExportImportRoundTrip ==
    (/\ last.op = "export"
     /\ \A r \in db.books : r.title.t = "str" /\ r.title.v # <<>>) =>
        LET imp == import_csv_fileobj(EmptyDb, last.result.file)
            old == list_all(db)
            new == list_all(imp.db)
        IN  /\ imp.ret = PyInt(Len(old))
            /\ Len(new) = Len(old)
            /\ \A k \in 1..Len(old) : SameText(new[k], old[k])

\* text holds needle as a substring, the case of ASCII letters set aside
Contains(text, needle) ==
    \E k \in 0..(Len(text) - Len(needle)) :
        \A i \in 1..Len(needle) : Fold(text[k + i]) = Fold(needle[i])

\* a search constraint on a field: absent or empty, it matches every record
Matches(value, constraint) ==
    ~Truthy(constraint) \/ (value.t = "str" /\ Contains(value.v, constraint.v))

Ascending(rows) ==
    \A i, j \in 1..Len(rows) : i < j => rows[i].id < rows[j].id

\* C14 (Spec).  search(title, author) returns exactly the records whose
\* title contains the title text and whose author contains the author text
\* (case-insensitive substrings, both required, an absent or empty text
\* matching every record), ascending by id; without constraints it returns
\* what list() returns; list() returns every record, ascending by id.
C14_SearchIsSubstringMatch ==
    /\ last.op = "search" =>
          LET rows == last.result.rows
              hits == {r \in db.books : /\ Matches(r.title, last.args[1])
                                        /\ Matches(r.author, last.args[2])}
          IN  /\ {rows[i] : i \in 1..Len(rows)} = hits
              /\ Len(rows) = Cardinality(hits)
              /\ Ascending(rows)
              /\ (~Truthy(last.args[1]) /\ ~Truthy(last.args[2])) =>
                     rows = list_all(db)
    /\ last.op = "list" =>
          LET rows == last.result.rows
          IN  /\ {rows[i] : i \in 1..Len(rows)} = db.books
              /\ Len(rows) = Cardinality(db.books)
              /\ Ascending(rows)

\* C15 (SpecImport).  An import whose stream becomes unreadable after k rows
\* were added (no row before that point being malformed) ends there, leaves
\* these k records in the store, and returns the count k.
C15_PartialImportReportsCount ==
    [][ (/\ last'.op = "import"
         /\ last'.args[1].undecodable
         /\ \A i \in 1..Len(last'.args[1].rows) :
               HasTitle(last'.args[1].rows[i]) => WellFormed(last'.args[1].rows[i])) =>
          LET k == Len(SelectSeq(last'.args[1].rows, HasTitle))
          IN  /\ db.books \subseteq db'.books
              /\ Cardinality(db'.books \ db.books) = k
              /\ last'.result = PyInt(k)
      ]_vars

\* C16 (SpecConc).  save_book never changes the lending state: its write to
\* an existing id leaves the row with the status and issued_to the store
\* holds at the moment of the write, and with the title, author, year and
\* isbn of the form, whatever other threads committed after save_book read
\* the row.
C16_SaveKeepsLendingState ==
    [][ \A c \in Clients :
          (cl[c].pc = "save_w" /\ cl'[c].pc = "idle"
              /\ cl[c].args[1].v \in Ids(db)) =>
             LET n == cl[c].args[1].v
                 f == cl[c].arg.v
             IN  /\ n \in Ids(db')
                 /\ RowOf(db', n).status = RowOf(db, n).status
                 /\ RowOf(db', n).issued_to = RowOf(db, n).issued_to
                 /\ RowOf(db', n).title = f[1]
                 /\ RowOf(db', n).author = f[2]
                 /\ RowOf(db', n).isbn = f[4]
      ]_vars

\* C17 (SpecConc).  A lending call that returns without an error has made
\* its change: when issue_book(id, b) returns None, its write has left a
\* row id with status 'issued' and issued_to b, and when return_book(id)
\* returns None, its write has left a row id with status 'available' and
\* issued_to NULL, also when another thread deletes id meanwhile.
C17_ReportedLendingIsReal ==
    [][ \A c \in Clients :
          /\ (cl[c].pc = "issue_w" /\ cl'[c].pc = "idle" /\ cl'[c].result = PyNone) =>
                LET n == cl[c].book.row.id
                IN  /\ n \in Ids(db')
                    /\ RowOf(db', n).status = Issued
                    /\ RowOf(db', n).issued_to = cl[c].arg
          /\ (cl[c].pc = "return_w" /\ cl'[c].pc = "idle" /\ cl'[c].result = PyNone) =>
                LET n == cl[c].book.row.id
                IN  /\ n \in Ids(db')
                    /\ RowOf(db', n).status = Available
                    /\ RowOf(db', n).issued_to = PyNone
      ]_vars

\* the rows of table d whose id is not the one book_id stands for
OtherRows(d, book_id) ==
    LET bid == _to_int(book_id)
    IN  IF bid = PyNone THEN d.books ELSE {r \in d.books : r.id # bid.v}

\* C18 (Spec).  Frame: get, list, search and export leave the store as it
\* is; update, issue and return neither create nor remove a record and
\* change no record but the one whose id they are given; delete removes no
\* record but the one whose id it is given and changes no other; the set of
\* ids grows by add and by import only.
C18_Frame ==
    [][ /\ last'.op \in {"get", "list", "search", "export"} => db' = db
        /\ last'.op \in {"update", "issue", "return"} =>
              /\ Ids(db') = Ids(db)
              /\ Cardinality(db'.books) = Cardinality(db.books)
              /\ OtherRows(db, last'.args[1]) \subseteq db'.books
        /\ last'.op = "delete" =>
              /\ db'.books \subseteq db.books
              /\ OtherRows(db, last'.args[1]) \subseteq db'.books
        /\ last'.op \notin {"add", "import"} => Ids(db') \subseteq Ids(db)
      ]_vars

C18_Witness ==
    /\ last.op = "delete"
    /\ last.args[1] = PyInt(1)
    /\ db.seq = 2
    /\ Ids(db) = {2}

============================================================================
